---- MODULE Spec2Model ----
(***************************************************************************)
(* Model of sb-keepalive: the project store (app/db.py), the keepalive     *)
(* engine and its two batch runs (app/keepalive.py), and the exit status of *)
(* the run command (cli.py) and of the legacy script (legacy/keepalive.py). *)
(*                                                                         *)
(* Text values (names, dates, status strings, messages) are sequences of    *)
(* tokens.  Names and dates are spelled character by character, because     *)
(* the store orders and compares them as text; fixed literals of the code   *)
(* ("SUCCESS", "FAILED: ", ...) are one token each.  String concatenation   *)
(* and f-string interpolation are \o.                                       *)
(***************************************************************************)
EXTENDS Integers, Sequences, FiniteSets, TLC

VARIABLES
    projects,   \* the projects table: [id -> row], DOMAIN = ids of the rows
    nextId,     \* the AUTOINCREMENT counter of projects.id
    today,      \* the current UTC date, as a day number (see IsoFormat)
    pc,         \* position of the running batch: idle, ping, status, nextrun, done
    mode,       \* "none", "all" (run_all) or "scheduled" (run_scheduled)
    selection,  \* `projects`: the Project objects of the batch, in order
    idx,        \* index in selection of the project being processed
    results,    \* `results`: the KeepaliveResult list of the batch
    cur,        \* outcome of the latest ping_project call, with its steps
    startStore, \* the table as it was when the batch selected its projects
    selDay,     \* the date the selection of the batch was made on
    assignedOn, \* per processed project, the date its next_run was drawn on
    runs,       \* batch runs started so far
    lastCall,   \* the latest call of a Database method as its caller saw it
    exit_code,  \* exit status of the `run` command, -1 while none has exited
    inflight,   \* the ping_project calls that were made and have not returned
    shown,      \* the latest credential the dashboard displayed, and how
    issued,     \* the ids add_project has returned so far
    completedOn \* the latest date a run_scheduled began and returned on

vars == << projects, nextId, today, pc, mode, selection, idx, results, cur,
           startStore, selDay, assignedOn, runs, lastCall, exit_code, inflight,
           shown, issued, completedOn >>

\* What a caller observes of a store call and of the command's exit, and
\* the calls in progress.
obsVars == << lastCall, exit_code, inflight, shown, issued,
             completedOn >>

batchVars == << pc, mode, selection, idx, results, startStore, selDay, assignedOn,
               runs >>

---------------------------------------------------------------------------
(* Bounds of the model *)

\* successful add_project calls in one behaviour
MaxProjects == 2
\* last day number the clock reaches
MaxDay == 2
\* batch runs in one behaviour
MaxRuns == 2

---------------------------------------------------------------------------
(* Text *)

\* SQL NULL / Python None
NULL == << "<NULL>" >>

\* The characters names and dates are spelled with, in code-point order.
Alphabet == << "-", "0", "1", "2", "3", "4", "5", "6", "7", "8", "9",
               "A", "B", "a", "b" >>

Ord(c) == CHOOSE i \in 1..Len(Alphabet) : Alphabet[i] = c

\* Ord with the letters folded to one case: what a NOCASE collation compares.
OrdNoCase(c) == IF c = "a" THEN Ord("A") ELSE IF c = "b" THEN Ord("B") ELSE Ord(c)

RECURSIVE TextLessNoCase(_, _)
TextLessNoCase(a, b) ==
    IF a = << >> THEN b # << >>
    ELSE IF b = << >> THEN FALSE
    ELSE IF OrdNoCase(Head(a)) = OrdNoCase(Head(b))
         THEN TextLessNoCase(Tail(a), Tail(b))
         ELSE OrdNoCase(Head(a)) < OrdNoCase(Head(b))

\* SQLite's default BINARY collation on TEXT: memcmp, a proper prefix first.
RECURSIVE TextLess(_, _)
TextLess(a, b) ==
    IF a = << >> THEN b # << >>
    ELSE IF b = << >> THEN FALSE
    ELSE IF Head(a) = Head(b) THEN TextLess(Tail(a), Tail(b))
         ELSE Ord(Head(a)) < Ord(Head(b))

TextLeq(a, b) == a = b \/ TextLess(a, b)

Digit(n) == Alphabet[n + 2]

Digits2(n) == << Digit(n \div 10), Digit(n % 10) >>

Digits4(n) == << Digit(n \div 1000), Digit((n \div 100) % 10),
                 Digit((n \div 10) % 10), Digit(n % 10) >>

\* The calendar date of day number d: day 0 is 2024-12-30, so the days of the
\* model run over the end of a month and of a year (valid for d <= 32).
DateOf(d) ==
    IF d <= 1 THEN [year |-> 2024, month |-> 12, day |-> 30 + d]
              ELSE [year |-> 2025, month |-> 1, day |-> d - 1]

\* date.isoformat(): YYYY-MM-DD
IsoFormat(d) ==
    LET dt == DateOf(d)
    IN  Digits4(dt.year) \o << "-" >> \o Digits2(dt.month) \o << "-" >>
        \o Digits2(dt.day)

\* datetime.utcnow().isoformat(): the date, "T", and a time of day that the
\* model does not resolve.
Timestamp(d) == IsoFormat(d) \o << "T", "hh:mm:ss" >>

---------------------------------------------------------------------------
(* app/models.py *)

\* Project.from_dict: the fields of the row the dataclass keeps (next_run is
\* not one of them); enabled is read back as a bool.
from_dict(data) ==
    [ id               |-> data.id,
      name             |-> data.name,
      url              |-> data.url,
      api_key          |-> data.api_key,
      keepalive_method |-> data.keepalive_method,
      table_name       |-> data.table_name,
      enabled          |-> (data.enabled # 0),
      last_status      |-> data.last_status,
      last_checked     |-> data.last_checked ]

KeepaliveResult(project, success, message, timestamp, method_used) ==
    [ project_id   |-> project.id,
      project_name |-> project.name,
      success      |-> success,
      message      |-> message,
      timestamp    |-> timestamp,
      method_used  |-> method_used ]

---------------------------------------------------------------------------
(* app/keepalive.py: the engine *)

RPC == << "rpc" >>
TABLE == << "table" >>
FALLBACK == << "fallback" >>

\* str(e) of the exception a failed outbound step raises
ErrText(step) == << "error in ", step >>

NoResult ==
    [ project_id |-> 0, project_name |-> NULL, success |-> FALSE,
      message |-> NULL, timestamp |-> NULL, method_used |-> NULL ]

\* A call either returns a KeepaliveResult or raises; steps lists the steps
\* the call attempted, in order, each with its outcome.
Returned(result, steps) ==
    [ raised |-> FALSE, result |-> result, exc |-> NULL, steps |-> steps ]

Raised(exc, steps) ==
    [ raised |-> TRUE, result |-> NoResult, exc |-> exc, steps |-> steps ]

\* A step on a named target: the read of a table.
StepOn(name, target, ok) == [ step |-> name, ok |-> ok, target |-> target ]

Step(name, ok) == StepOn(name, NULL, ok)

\* The outcomes of the outbound steps of one ping, chosen by the environment.
Envs == [ construct : BOOLEAN, primary : BOOLEAN ]

\* create_client(url, api_key): the client library refuses an empty URL or
\* key; with both present it builds the client or raises.
ConstructOutcomes(project) ==
    IF project.url = << >> \/ project.api_key = << >> THEN { FALSE } ELSE BOOLEAN

EnvsFor(project) == { e \in Envs : e.construct \in ConstructOutcomes(project) }

\* _ping_fallback whose check fails: a plausible bug of the fallback step.
ping_fallback_fails(project, ts, steps) ==
    Returned(KeepaliveResult(project, FALSE,
                 << "All methods failed: " >> \o ErrText("fallback"), ts, FALLBACK),
             Append(steps, Step("fallback", FALSE)))

\* _ping_fallback: the try body only logs and builds the result, so it cannot
\* raise; the except branch is kept as the code has it.
ping_fallback(project, ts, steps) ==
    LET bodyRaises == FALSE
    IN  IF ~bodyRaises
        THEN Returned(KeepaliveResult(project, TRUE,
                          << "Fallback connectivity check succeeded" >>, ts, FALLBACK),
                      Append(steps, Step("fallback", TRUE)))
        ELSE Returned(KeepaliveResult(project, FALSE,
                          << "All methods failed: " >> \o ErrText("fallback"), ts,
                          FALLBACK),
                      Append(steps, Step("fallback", FALSE)))

\* _ping_rpc that reports the failed call itself instead of falling back.
ping_rpc_no_fallback(project, ts, env, steps) ==
    IF env.primary
    THEN Returned(KeepaliveResult(project, TRUE, << "RPC keepalive() succeeded" >>,
                      ts, RPC),
                  Append(steps, Step("rpc", TRUE)))
    ELSE Returned(KeepaliveResult(project, FALSE, ErrText("rpc"), ts, RPC),
                  Append(steps, Step("rpc", FALSE)))

\* _ping_rpc
ping_rpc(project, ts, env, steps) ==
    IF env.primary
    THEN Returned(KeepaliveResult(project, TRUE, << "RPC keepalive() succeeded" >>,
                      ts, RPC),
                  Append(steps, Step("rpc", TRUE)))
    ELSE ping_fallback(project, ts, Append(steps, Step("rpc", FALSE)))

\* A default that is taken for None only, not for the empty string.
TableNameOfNoneOnly(project) ==
    IF project.table_name = NULL THEN << "users" >> ELSE project.table_name

\* project.table_name or "users"
TableNameOf(project) ==
    IF project.table_name = NULL \/ project.table_name = << >>
    THEN << "users" >> ELSE project.table_name

\* _ping_table that reads the table a second time before it falls back.
ping_table_retries(project, ts, env, steps) ==
    LET table_name == TableNameOf(project)
    IN  IF env.primary
        THEN Returned(KeepaliveResult(project, TRUE,
                          << "Table query on '" >> \o table_name \o << "' succeeded" >>,
                          ts, << "table:" >> \o table_name),
                      Append(steps, StepOn("table", table_name, TRUE)))
        ELSE ping_fallback(project, ts,
                 steps \o << StepOn("table", table_name, FALSE),
                          StepOn("table", table_name, FALSE) >>)

\* _ping_table
ping_table(project, ts, env, steps) ==
    LET table_name == TableNameOf(project)
    IN  IF env.primary
        THEN Returned(KeepaliveResult(project, TRUE,
                          << "Table query on '" >> \o table_name \o << "' succeeded" >>,
                          ts, << "table:" >> \o table_name),
                      Append(steps, StepOn("table", table_name, TRUE)))
        ELSE ping_fallback(project, ts,
                           Append(steps, StepOn("table", table_name, FALSE)))

\* The try body of ping_project (lines 45-63).
ping_project_body(project, ts, env) ==
    IF ~env.construct
    THEN Raised(ErrText("create_client"), << Step("create_client", FALSE) >>)
    ELSE LET steps == << Step("create_client", TRUE) >>
         IN  IF project.keepalive_method = RPC THEN ping_rpc(project, ts, env, steps)
             ELSE IF project.keepalive_method = TABLE
                  THEN ping_table(project, ts, env, steps)
                  ELSE Returned(KeepaliveResult(project, FALSE,
                                    << "Unknown method: " >> \o project.keepalive_method,
                                    ts, project.keepalive_method),
                                steps)

\* ping_project without its except clause.
ping_project_uncaught(project, ts, env) == ping_project_body(project, ts, env)

\* ping_project: whatever the body raises becomes a failed result.
ping_project(project, ts, env) ==
    LET body == ping_project_body(project, ts, env)
    IN  IF body.raised
        THEN Returned(KeepaliveResult(project, FALSE, body.exc, ts,
                          project.keepalive_method),
                      body.steps)
        ELSE body

NoPing == [ called |-> FALSE, project |-> from_dict(
              [ id |-> 0, name |-> NULL, url |-> NULL, api_key |-> NULL,
                keepalive_method |-> NULL, table_name |-> NULL, enabled |-> 0,
                last_status |-> NULL, last_checked |-> NULL ]),
            out |-> Raised(NULL, << >>) ]

Ping(project, ts, env) ==
    [ called |-> TRUE, project |-> project, out |-> ping_project(project, ts, env) ]

---------------------------------------------------------------------------
(* app/db.py: the projects table *)

\* ORDER BY name under a case-insensitive collation.
NameBeforeNoCase(r, q) == TextLessNoCase(r.name, q.name)

\* ORDER BY name: name is TEXT with the default collation.
NameBefore(r, q) == TextLess(r.name, q.name)

\* The rows in ORDER BY name order (names are UNIQUE, so the order is total).
RECURSIVE OrderByName(_)
OrderByName(rows) ==
    IF rows = {} THEN << >>
    ELSE LET first == CHOOSE r \in rows : \A q \in rows \ {r} : NameBefore(r, q)
         IN  << first >> \o OrderByName(rows \ {first})

\* get_all_projects that ignores enabled_only.
get_all_projects_unfiltered(db, enabled_only) ==
    OrderByName({ db[i] : i \in DOMAIN db })

\* get_all_projects
get_all_projects(db, enabled_only) ==
    IF enabled_only
    THEN OrderByName({ db[i] : i \in { j \in DOMAIN db : db[j].enabled = 1 } })
    ELSE OrderByName({ db[i] : i \in DOMAIN db })

\* get_scheduled_projects without its enabled = 1 condition.
get_scheduled_projects_any(db, day) ==
    LET t == IsoFormat(day)
    IN  OrderByName({ db[i] : i \in { j \in DOMAIN db :
            db[j].next_run = NULL \/ TextLeq(db[j].next_run, t) } })

\* get_scheduled_projects with next_run < today in place of <=.
get_scheduled_projects_strict(db, day) ==
    LET t == IsoFormat(day)
    IN  OrderByName({ db[i] : i \in { j \in DOMAIN db :
            /\ db[j].enabled = 1
            /\ (db[j].next_run = NULL \/ TextLess(db[j].next_run, t)) } })

\* get_scheduled_projects, run on day `day`: next_run is compared as text
\* with today's date in ISO format.
get_scheduled_projects(db, day) ==
    LET t == IsoFormat(day)
    IN  OrderByName({ db[i] : i \in { j \in DOMAIN db :
            /\ db[j].enabled = 1
            /\ (db[j].next_run = NULL \/ TextLeq(db[j].next_run, t)) } })

\* update_status whose UPDATE is never committed: the write is lost.
update_status_lost(db, project_id, status, timestamp) == db

\* update_status that leaves last_checked as it was.
update_status_keeps_checked(db, project_id, status, timestamp) ==
    IF project_id \in DOMAIN db
    THEN [db EXCEPT ![project_id].last_status = status]
    ELSE db

\* update_status: an UPDATE ... WHERE id = ? (no row: nothing changes),
\* committed before the method returns
update_status(db, project_id, status, timestamp) ==
    IF project_id \in DOMAIN db
    THEN [db EXCEPT ![project_id].last_status = status,
                    ![project_id].last_checked = timestamp]
    ELSE db

\* update_next_run whose UPDATE is never committed: the write is lost.
update_next_run_lost(db, project_id, next_run_date) == db

\* update_next_run whose UPDATE has no WHERE clause: every row is written.
update_next_run_all_rows(db, project_id, next_run_date) ==
    [ i \in DOMAIN db |-> [ db[i] EXCEPT !.next_run = next_run_date ] ]

\* update_next_run
update_next_run(db, project_id, next_run_date) ==
    IF project_id \in DOMAIN db
    THEN [db EXCEPT ![project_id].next_run = next_run_date]
    ELSE db

\* The row INSERT INTO projects creates: the columns it does not name take
\* their DEFAULT NULL.
NewRow(id, name, url, api_key, keepalive_method, table_name, enabled) ==
    [ id |-> id, name |-> name, url |-> url, api_key |-> api_key,
      keepalive_method |-> keepalive_method, table_name |-> table_name,
      enabled |-> IF enabled THEN 1 ELSE 0,
      last_status |-> NULL, last_checked |-> NULL, next_run |-> NULL ]

\* name TEXT NOT NULL UNIQUE
NameTaken(db, name) == \E i \in DOMAIN db : db[i].name = name

Extend(db, row) == [ i \in DOMAIN db \cup {row.id} |-> IF i = row.id THEN row ELSE db[i] ]

Remove(db, id) == [ i \in DOMAIN db \ {id} |-> db[i] ]

set_enabled(db, project_id, value) ==
    IF project_id \in DOMAIN db THEN [db EXCEPT ![project_id].enabled = value] ELSE db

---------------------------------------------------------------------------
(* Inputs *)

NameB == << "B" >>
NameAB == << "a", "b" >>

URL == << "https://x.supabase.co" >>
KEY == << "anon-key" >>
SOAP == << "soap" >>

\* The add_project calls of the model: (name, keepalive_method, table_name)
AddArgs == { << NameB, RPC, NULL >>, << NameAB, TABLE, << "t" >> >> }

Ids == 1..(MaxProjects + 1)

\* random.randint(1, 5)
MinDays == 1
MaxDays == 5

\* the draws of random.randint when its lower end is 0
RandomDaysFromZero == 0..MaxDays

RandomDays == MinDays..MaxDays

---------------------------------------------------------------------------
(* Calls of the Database methods, as their caller sees them *)

NoRow == NewRow(0, NULL, NULL, NULL, NULL, NULL, FALSE)

\* Python's None and an int, as return values.
None == [ isNone |-> TRUE, n |-> 0 ]
IntValue(n) == [ isNone |-> FALSE, n |-> n ]

\* sqlite3.IntegrityError: UNIQUE constraint failed: projects.name
IntegrityError == << "sqlite3.IntegrityError" >>

\* What a Database method did: the table after it, the AUTOINCREMENT
\* sequence after it, the exception it raised (NULL: none) and its return
\* value.
Outcome(db, seq, raised, value) ==
    [ db |-> db, seq |-> seq, raised |-> raised, value |-> value ]

\* add_project with INSERT OR REPLACE: the row that holds the name is
\* replaced by the new one.
add_project_or_replace(db, seq, name, url, api_key, keepalive_method, table_name, enabled) ==
    LET kept == { i \in DOMAIN db : db[i].name # name }
    IN  Outcome(Extend([ i \in kept |-> db[i] ],
                       NewRow(seq, name, url, api_key, keepalive_method, table_name,
                              enabled)),
                seq + 1, NULL, IntValue(seq))

\* add_project on a table whose id is INTEGER PRIMARY KEY without
\* AUTOINCREMENT: the new rowid is one more than the largest in the table.
add_project_rowid(db, seq, name, url, api_key, keepalive_method, table_name, enabled) ==
    LET id == IF DOMAIN db = {}
              THEN 1
              ELSE (CHOOSE m \in DOMAIN db : \A j \in DOMAIN db : j <= m) + 1
    IN  IF NameTaken(db, name)
        THEN Outcome(db, seq, IntegrityError, None)
        ELSE Outcome(Extend(db, NewRow(id, name, url, api_key, keepalive_method,
                                       table_name, enabled)),
                     seq + 1, NULL, IntValue(id))

\* add_project: the INSERT fails on a name the table holds (name is UNIQUE)
\* and the exception leaves the method; otherwise commit, return lastrowid.
add_project(db, seq, name, url, api_key, keepalive_method, table_name, enabled) ==
    IF NameTaken(db, name)
    THEN Outcome(db, seq, IntegrityError, None)
    ELSE Outcome(Extend(db, NewRow(seq, name, url, api_key, keepalive_method,
                                   table_name, enabled)),
                 seq + 1, NULL, IntValue(seq))

\* get_project: dict(row) if row else None
get_project(db, project_id) ==
    IF project_id \in DOMAIN db
    THEN [ found |-> TRUE, row |-> db[project_id] ]
    ELSE [ found |-> FALSE, row |-> NoRow ]

\* enable_project, disable_project: UPDATE ... WHERE id = ?, commit; the
\* methods have no return statement and never look at the row count.
enable_project(db, seq, project_id) ==
    Outcome(set_enabled(db, project_id, 1), seq, NULL, None)

disable_project(db, seq, project_id) ==
    Outcome(set_enabled(db, project_id, 0), seq, NULL, None)

\* delete_project: DELETE ... WHERE id = ?, commit.
delete_project(db, seq, project_id) ==
    Outcome(Remove(db, project_id), seq, NULL, None)

\* A field of update_project: None leaves the column as it is.
Updated(old, new) == IF new = NULL THEN old ELSE new

\* An update_project that also clears the status columns of the row.
update_project_resets_status(db, seq, project_id, name, url, api_key, keepalive_method, table_name) ==
    IF project_id \notin DOMAIN db
    THEN Outcome(db, seq, NULL, None)
    ELSE Outcome([ db EXCEPT ![project_id] =
                      [ @ EXCEPT !.keepalive_method = Updated(@, keepalive_method),
                                 !.last_status = NULL,
                                 !.last_checked = NULL ] ],
                 seq, NULL, None)

\* An update_project on a table whose name column is not UNIQUE.
update_project_unchecked(db, seq, project_id, name, url, api_key, keepalive_method, table_name) ==
    IF project_id \notin DOMAIN db
    THEN Outcome(db, seq, NULL, None)
    ELSE Outcome([ db EXCEPT ![project_id] =
                      [ @ EXCEPT !.name = Updated(@, name),
                                 !.url = Updated(@, url),
                                 !.api_key = Updated(@, api_key),
                                 !.keepalive_method = Updated(@, keepalive_method),
                                 !.table_name = Updated(@, table_name) ] ],
                 seq, NULL, None)

\* update_project: returns at once when every field is None; otherwise one
\* UPDATE ... WHERE id = ?, which matches no row for an id the table does
\* not hold and fails on a name another row holds.
update_project(db, seq, project_id, name, url, api_key, keepalive_method, table_name) ==
    IF name = NULL /\ url = NULL /\ api_key = NULL /\ keepalive_method = NULL
       /\ table_name = NULL
    THEN Outcome(db, seq, NULL, None)
    ELSE IF project_id \notin DOMAIN db
    THEN Outcome(db, seq, NULL, None)
    ELSE IF name # NULL /\ \E i \in DOMAIN db \ {project_id} : db[i].name = name
    THEN Outcome(db, seq, IntegrityError, None)
    ELSE Outcome([ db EXCEPT ![project_id] =
                      [ @ EXCEPT !.name = Updated(@, name),
                                 !.url = Updated(@, url),
                                 !.api_key = Updated(@, api_key),
                                 !.keepalive_method = Updated(@, keepalive_method),
                                 !.table_name = Updated(@, table_name) ] ],
                 seq, NULL, None)

\* A call as its caller sees it: the method, its arguments, the table before
\* it, the exception raised and the value returned; for get_project the row
\* it returned, and the call it came after.
Call(op, id, name, status, timestamp, before, raised, value, got, after) ==
    [ op |-> op, id |-> id, name |-> name, status |-> status,
      timestamp |-> timestamp, before |-> before, raised |-> raised,
      value |-> value, got |-> got, after |-> after ]

NotGot == [ found |-> FALSE, row |-> NoRow ]

\* Nothing has been displayed yet.
NotShown == [ called |-> FALSE, api_key |-> << >>, text |-> << >> ]

\* No command has exited: there is no exit status yet.
NotExited == -1

\* No run_scheduled has begun and returned within one date yet.
NeverCompleted == -1

\* The call a get_project came after: its method and its id.
NoAfter == [ op |-> "none", id |-> 0 ]

NoCall == Call("none", 0, NULL, NULL, NULL, [ i \in {} |-> NULL ], NULL, None,
               NotGot, NoAfter)

---------------------------------------------------------------------------
(* State machine *)

EmptyTable == [ i \in {} |-> NULL ]

Init ==
    /\ projects = EmptyTable
    /\ nextId = 1
    /\ today = 0
    /\ pc = "idle"
    /\ mode = "none"
    /\ selection = << >>
    /\ idx = 0
    /\ results = << >>
    /\ cur = NoPing
    /\ startStore = EmptyTable
    /\ selDay = 0
    /\ assignedOn = << >>
    /\ runs = 0
    /\ lastCall = NoCall
    /\ exit_code = NotExited
    /\ inflight = {}
    /\ shown = NotShown
    /\ issued = {}
    /\ completedOn = NeverCompleted

\* add_project: the INSERT raises IntegrityError on a duplicate name and
\* then creates nothing; AUTOINCREMENT hands out the id.
AddProject ==
    /\ pc = "idle"
    /\ nextId <= MaxProjects
    /\ \E a \in AddArgs, enabled \in BOOLEAN :
         IF NameTaken(projects, a[1])
         THEN UNCHANGED << projects, nextId, issued >>
         ELSE /\ projects' = Extend(projects,
                     NewRow(nextId, a[1], URL, KEY, a[2], a[3], enabled))
              /\ nextId' = nextId + 1
              /\ issued' = issued \cup { nextId }
    /\ UNCHANGED << today, cur >>
    /\ UNCHANGED batchVars
    /\ UNCHANGED << lastCall, exit_code, inflight, shown, completedOn >>

\* enable_project
EnableProject ==
    /\ pc = "idle"
    /\ \E id \in Ids : projects' = set_enabled(projects, id, 1)
    /\ UNCHANGED << nextId, today, cur >>
    /\ UNCHANGED batchVars
    /\ UNCHANGED obsVars

\* disable_project
DisableProject ==
    /\ pc = "idle"
    /\ \E id \in Ids : projects' = set_enabled(projects, id, 0)
    /\ UNCHANGED << nextId, today, cur >>
    /\ UNCHANGED batchVars
    /\ UNCHANGED obsVars

\* delete_project
DeleteProject ==
    /\ pc = "idle"
    /\ \E id \in Ids : projects' = Remove(projects, id)
    /\ UNCHANGED << nextId, today, cur >>
    /\ UNCHANGED batchVars
    /\ UNCHANGED obsVars

\* The clock passes midnight UTC.
Tick ==
    /\ today < MaxDay
    /\ today' = today + 1
    /\ UNCHANGED << projects, nextId, cur >>
    /\ UNCHANGED batchVars
    /\ UNCHANGED obsVars

\* What the batch saw of the table when it selected: the columns a batch
\* never writes, and next_run.
StartView(db) ==
    [ i \in DOMAIN db |->
        [ id |-> db[i].id, name |-> db[i].name, url |-> db[i].url,
          api_key |-> db[i].api_key, keepalive_method |-> db[i].keepalive_method,
          table_name |-> db[i].table_name, enabled |-> db[i].enabled,
          next_run |-> db[i].next_run ] ]

\* Lines 198-206 of run_all and 247-255 of run_scheduled: the batch starts
\* with the rows the query returned, or returns [] at once.
Select(m, projects_data) ==
    /\ mode' = m
    /\ startStore' = StartView(projects)
    /\ selDay' = today
    /\ results' = << >>
    /\ assignedOn' = << >>
    /\ cur' = NoPing
    /\ IF projects_data = << >>
       THEN /\ selection' = << >>
            /\ idx' = 0
            /\ pc' = "done"
       ELSE /\ selection' = [ i \in 1..Len(projects_data) |-> from_dict(projects_data[i]) ]
            /\ idx' = 1
            /\ pc' = "ping"
    /\ UNCHANGED << projects, nextId, today >>
    /\ UNCHANGED obsVars

\* A batch run of a behaviour that holds MaxRuns of them at most.
Begin(m, projects_data) ==
    /\ runs < MaxRuns
    /\ runs' = runs + 1
    /\ Select(m, projects_data)

StartRunAll ==
    /\ pc = "idle"
    /\ Begin("all", get_all_projects(projects, TRUE))

StartRunScheduled ==
    /\ pc = "idle"
    /\ Begin("scheduled", get_scheduled_projects(projects, today))

\* The status without its "FAILED: " prefix.
StatusOfBare(result) ==
    IF result.success THEN << "SUCCESS" >> ELSE result.message

\* status = "SUCCESS" if result.success else f"FAILED: {result.message}"
StatusOf(result) ==
    IF result.success THEN << "SUCCESS" >> ELSE << "FAILED: " >> \o result.message

\* A ping_project that records its own result in the table.
store_after_ping_records(db, project, result) ==
    update_status(db, project.id, StatusOf(result), result.timestamp)

\* The table after ping_project(project) has returned result: ping_project,
\* _ping_rpc, _ping_table and _ping_fallback never touch self.db.
store_after_ping(db, project, result) == db

\* result = self.ping_project(project); results.append(result)
\* The loop has no try: an exception out of ping_project would end the run.
PingStep ==
    /\ pc = "ping"
    /\ \E env \in EnvsFor(selection[idx]) :
         /\ cur' = Ping(selection[idx], Timestamp(today), env)
         /\ projects' = store_after_ping(projects, selection[idx], cur'.out.result)
         /\ IF cur'.out.raised
            THEN /\ results' = results
                 /\ pc' = "aborted"
            ELSE /\ results' = Append(results, cur'.out.result)
                 /\ pc' = "status"
    /\ UNCHANGED << nextId, today, mode, selection, idx, startStore,
                    selDay, assignedOn, runs >>
    /\ UNCHANGED obsVars

\* run_all's loop body has no next_run step; run_scheduled's has one.
WritesNextRunAlways(m) == TRUE

WritesNextRun(m) == m = "scheduled"

\* A loop that ends at the first failed result.
AdvanceStopOnFailure ==
    IF idx < Len(selection) /\ results[idx].success
    THEN /\ idx' = idx + 1
         /\ pc' = "ping"
    ELSE /\ idx' = idx
         /\ pc' = "done"

\* The loop goes on to the next project, or ends.
Advance ==
    IF idx < Len(selection)
    THEN /\ idx' = idx + 1
         /\ pc' = "ping"
    ELSE /\ idx' = idx
         /\ pc' = "done"

\* self.db.update_status(project.id, status, result.timestamp)
StatusStep ==
    /\ pc = "status"
    /\ projects' = update_status(projects, selection[idx].id,
                                 StatusOf(results[idx]), results[idx].timestamp)
    /\ IF WritesNextRun(mode)
       THEN /\ pc' = "nextrun"
            /\ idx' = idx
       ELSE Advance
    /\ UNCHANGED << nextId, today, mode, selection, results, cur, startStore,
                    selDay, assignedOn, runs >>
    /\ UNCHANGED obsVars

\* days_until_next = random.randint(1, 5); next_run_date = today + that many
\* days; self.db.update_next_run(project.id, next_run_date.isoformat())
NextRunStep ==
    /\ pc = "nextrun"
    /\ \E days_until_next \in RandomDays :
         projects' = update_next_run(projects, selection[idx].id,
                                     IsoFormat(today + days_until_next))
    /\ assignedOn' = Append(assignedOn, today)
    /\ Advance
    /\ UNCHANGED << nextId, today, mode, selection, results, cur, startStore, selDay,
                    runs >>
    /\ UNCHANGED obsVars

\* return results: the invocation ends.
EndBatch ==
    /\ pc = "done"
    /\ pc' = "idle"
    /\ mode' = "none"
    /\ selection' = << >>
    /\ idx' = 0
    /\ results' = << >>
    /\ cur' = NoPing
    /\ startStore' = EmptyTable
    /\ selDay' = 0
    /\ assignedOn' = << >>
    /\ UNCHANGED << projects, nextId, today, runs >>

Return ==
    /\ EndBatch
    /\ UNCHANGED obsVars

Next ==
    \/ AddProject
    \/ EnableProject
    \/ DisableProject
    \/ DeleteProject
    \/ Tick
    \/ StartRunAll
    \/ StartRunScheduled
    \/ PingStep
    \/ StatusStep
    \/ NextRunStep
    \/ Return

Spec == Init /\ [][Next]_vars

---------------------------------------------------------------------------
(* A batch that is cut short *)

\* The process dies in the middle of a batch: what was committed stays.
Crash ==
    /\ pc \in { "ping", "status", "nextrun" }
    /\ pc' = "crashed"
    /\ UNCHANGED << projects, nextId, today, mode, selection, idx, results, cur,
                    startStore, selDay, assignedOn, runs >>
    /\ UNCHANGED obsVars

\* A later invocation starts from the table the dead one left.
Restart ==
    /\ pc = "crashed"
    /\ pc' = "idle"
    /\ mode' = "none"
    /\ selection' = << >>
    /\ idx' = 0
    /\ results' = << >>
    /\ cur' = NoPing
    /\ startStore' = EmptyTable
    /\ selDay' = 0
    /\ assignedOn' = << >>
    /\ UNCHANGED << projects, nextId, today, runs >>
    /\ UNCHANGED obsVars

NextCrash ==
    \/ AddProject
    \/ Tick
    \/ StartRunAll
    \/ StartRunScheduled
    \/ PingStep
    \/ StatusStep
    \/ NextRunStep
    \/ Return
    \/ Crash
    \/ Restart

SpecCrash == Init /\ [][NextCrash]_vars

---------------------------------------------------------------------------
(* A batch whose pings take time: the call and its return are two steps *)

\* A loop that does not wait for ping_project: it goes on to the next
\* project while the call is in progress.
AwaitNot ==
    IF idx < Len(selection)
    THEN /\ idx' = idx + 1
         /\ pc' = "ping"
    ELSE /\ idx' = idx
         /\ pc' = "inflight"

\* result = self.ping_project(project) is an ordinary call: the loop stands
\* still until it returns.
Await ==
    /\ idx' = idx
    /\ pc' = "inflight"

\* ping_project is called; it reads the clock first (line 42).
PingCall ==
    /\ pc = "ping"
    /\ inflight' = inflight \cup { [ id |-> selection[idx].id, since |-> today ] }
    /\ Await
    /\ UNCHANGED << projects, nextId, today, mode, selection, results, cur,
                    startStore, selDay, assignedOn, runs, lastCall, exit_code,
                    shown, issued, completedOn >>

\* ping_project returns its result to the loop.
PingReturn ==
    /\ pc = "inflight"
    /\ \E call \in inflight :
         /\ call.id = selection[idx].id
         /\ inflight' = inflight \ { call }
         /\ \E env \in EnvsFor(selection[idx]) :
              /\ cur' = Ping(selection[idx], Timestamp(call.since), env)
              /\ projects' = store_after_ping(projects, selection[idx],
                                              cur'.out.result)
              /\ IF cur'.out.raised
                 THEN /\ results' = results
                      /\ pc' = "aborted"
                 ELSE /\ results' = Append(results, cur'.out.result)
                      /\ pc' = "status"
    /\ UNCHANGED << nextId, today, mode, selection, idx, startStore,
                    selDay, assignedOn, runs, lastCall, exit_code,
                    shown, issued, completedOn >>

\* The network call inside ping_project never returns: no timeout is set and
\* nothing cancels it.
PingHang ==
    /\ pc = "inflight"
    /\ pc' = "hung"
    /\ UNCHANGED << projects, nextId, today, mode, selection, idx, results, cur,
                    startStore, selDay, assignedOn, runs >>
    /\ UNCHANGED obsVars

NextHang ==
    \/ AddProject
    \/ Tick
    \/ StartRunAll
    \/ StartRunScheduled
    \/ PingCall
    \/ PingReturn
    \/ PingHang
    \/ StatusStep
    \/ NextRunStep
    \/ Return

SpecHang == Init /\ [][NextHang]_vars

---------------------------------------------------------------------------
(* A batch with another invocation's disable and delete commands in between
   its steps: each Database method commits on its own *)

\* `disable <id>` of another invocation, at any point of the batch.
DisableMeanwhile ==
    /\ pc \in { "ping", "status", "nextrun" }
    /\ \E id \in DOMAIN projects :
         /\ projects[id].enabled = 1
         /\ projects' = disable_project(projects, nextId, id).db
    /\ UNCHANGED << nextId, today, cur >>
    /\ UNCHANGED batchVars
    /\ UNCHANGED obsVars

\* `delete <id>` of another invocation, at any point of the batch.
DeleteMeanwhile ==
    /\ pc \in { "ping", "status", "nextrun" }
    /\ \E id \in DOMAIN projects :
         projects' = delete_project(projects, nextId, id).db
    /\ UNCHANGED << nextId, today, cur >>
    /\ UNCHANGED batchVars
    /\ UNCHANGED obsVars

NextMeanwhile ==
    \/ AddProject
    \/ StartRunAll
    \/ StartRunScheduled
    \/ PingStep
    \/ StatusStep
    \/ NextRunStep
    \/ Return
    \/ DisableMeanwhile
    \/ DeleteMeanwhile

SpecMeanwhile == Init /\ [][NextMeanwhile]_vars

---------------------------------------------------------------------------
(* run_scheduled from a daily timer: on every date one invocation at least
   begins and returns *)

\* last day number the clock reaches under the daily timer
MaxGapDay == 7

\* run_scheduled, invoked any number of times.
StartScheduledDaily ==
    /\ pc = "idle"
    /\ Select("scheduled", get_scheduled_projects(projects, today))
    /\ UNCHANGED runs

\* run_all, invoked by hand between the timer's runs.
StartAllDaily ==
    /\ pc = "idle"
    /\ Select("all", get_all_projects(projects, TRUE))
    /\ UNCHANGED runs

\* return results, of an invocation that began on the date it returns on or
\* on an earlier one.
ReturnDaily ==
    /\ EndBatch
    /\ completedOn' = IF mode = "scheduled" /\ selDay = today
                       THEN today
                       ELSE completedOn
    /\ UNCHANGED << lastCall, exit_code, inflight, shown, issued >>

\* The clock passes midnight UTC, at any point of a batch; the date that
\* ends has had its run_scheduled.
Midnight ==
    /\ today < MaxGapDay
    /\ completedOn = today
    /\ today' = today + 1
    /\ UNCHANGED << projects, nextId, cur >>
    /\ UNCHANGED batchVars
    /\ UNCHANGED << lastCall, exit_code, inflight, shown, issued, completedOn >>

NextDaily ==
    \/ AddProject
    \/ StartScheduledDaily
    \/ StartAllDaily
    \/ PingStep
    \/ StatusStep
    \/ NextRunStep
    \/ ReturnDaily
    \/ Midnight

SpecDaily == Init /\ [][NextDaily]_vars

---------------------------------------------------------------------------
(* The store on its own: the Database methods called one after another *)

StatusInputs == { << "SUCCESS" >>, << "FAILED: " >> \o ErrText(RPC) }
TimestampInputs == { Timestamp(0), Timestamp(1) }

\* update_project calls of the model: (name, keepalive_method)
UpdateArgs == { NULL, NameB, NameAB } \X { NULL, RPC }

Done(op, id, name, status, timestamp, o) ==
    /\ projects' = o.db
    /\ nextId' = o.seq
    /\ lastCall' = Call(op, id, name, status, timestamp, projects, o.raised,
                        o.value, NotGot, NoAfter)
    /\ issued' = IF op = "add_project" /\ ~o.value.isNone
                  THEN issued \cup { o.value.n }
                  ELSE issued
    /\ UNCHANGED << today, cur, exit_code, inflight, shown, completedOn >>
    /\ UNCHANGED batchVars

CallAddProject ==
    /\ pc = "idle"
    /\ \E a \in AddArgs, enabled \in BOOLEAN :
         /\ NameTaken(projects, a[1]) \/ nextId <= MaxProjects
         /\ Done("add_project", 0, a[1], NULL, NULL,
                 add_project(projects, nextId, a[1], URL, KEY, a[2], a[3], enabled))

CallEnableProject ==
    /\ pc = "idle"
    /\ \E id \in Ids :
         Done("enable_project", id, NULL, NULL, NULL,
              enable_project(projects, nextId, id))

CallDisableProject ==
    /\ pc = "idle"
    /\ \E id \in Ids :
         Done("disable_project", id, NULL, NULL, NULL,
              disable_project(projects, nextId, id))

CallDeleteProject ==
    /\ pc = "idle"
    /\ \E id \in Ids :
         Done("delete_project", id, NULL, NULL, NULL,
              delete_project(projects, nextId, id))

CallUpdateProject ==
    /\ pc = "idle"
    /\ \E id \in Ids, a \in UpdateArgs :
         Done("update_project", id, a[1], NULL, NULL,
              update_project(projects, nextId, id, a[1], NULL, NULL, a[2], NULL))

CallUpdateStatus ==
    /\ pc = "idle"
    /\ \E id \in Ids, s \in StatusInputs, t \in TimestampInputs :
         Done("update_status", id, NULL, s, t,
              Outcome(update_status(projects, id, s, t), nextId, NULL, None))

\* get_project, called straight after the call lastCall records.
CallGetProject ==
    /\ pc = "idle"
    /\ lastCall.op \notin { "none", "get_project" }
    /\ \E id \in Ids :
         lastCall' = Call("get_project", id, NULL, lastCall.status,
                          lastCall.timestamp, projects, NULL, None,
                          get_project(projects, id),
                          [ op |-> lastCall.op, id |-> lastCall.id ])
    /\ UNCHANGED << projects, nextId, today, cur, exit_code, inflight,
                    shown, issued, completedOn >>
    /\ UNCHANGED batchVars

NextStore ==
    \/ CallAddProject
    \/ CallEnableProject
    \/ CallDisableProject
    \/ CallDeleteProject
    \/ CallUpdateProject
    \/ CallUpdateStatus
    \/ CallGetProject

SpecStore == Init /\ [][NextStore]_vars

---------------------------------------------------------------------------
(* The calls that create, rename, switch and delete rows, with batch runs *)
(* between them                                                            *)

NextNames ==
    \/ CallAddProject
    \/ CallUpdateProject
    \/ CallEnableProject
    \/ CallDisableProject
    \/ CallDeleteProject
    \/ StartRunAll
    \/ PingStep
    \/ StatusStep
    \/ Return

SpecNames == Init /\ [][NextNames]_vars

---------------------------------------------------------------------------
(* add_project and update_project called with any method text *)

\* The keepalive_method arguments of the calls: the two methods, and a text
\* that is neither.
MethodInputs == { RPC, TABLE, SOAP }

CallAddAnyMethod ==
    /\ pc = "idle"
    /\ \E name \in { NameB, NameAB }, m \in MethodInputs :
         /\ NameTaken(projects, name) \/ nextId <= MaxProjects
         /\ Done("add_project", 0, name, NULL, NULL,
                 add_project(projects, nextId, name, URL, KEY, m, NULL, TRUE))

CallSetMethod ==
    /\ pc = "idle"
    /\ \E id \in Ids, m \in MethodInputs :
         Done("update_project", id, NULL, NULL, NULL,
              update_project(projects, nextId, id, NULL, NULL, NULL, m, NULL))

NextMethods ==
    \/ CallAddAnyMethod
    \/ CallSetMethod
    \/ CallDeleteProject

SpecMethods == Init /\ [][NextMethods]_vars

---------------------------------------------------------------------------
(* The batch runs with every operation of the store between them *)

\* update_project calls between two batches: a rename, a change of method.
LifeUpdateArgs == { << NameB, NULL >>, << NULL, RPC >> }

\* update_project, called between two batches.
UpdateProject ==
    /\ pc = "idle"
    /\ \E id \in Ids, a \in LifeUpdateArgs :
         projects' = update_project(projects, nextId, id, a[1], NULL, NULL, a[2],
                                    NULL).db
    /\ UNCHANGED << nextId, today, cur >>
    /\ UNCHANGED batchVars
    /\ UNCHANGED obsVars

NextLife == Next \/ UpdateProject

SpecLife == Init /\ [][NextLife]_vars

---------------------------------------------------------------------------
(* cli.py: the run command, and legacy/keepalive.py: main *)

\* failed_count = sum(1 for r in results if not r.success)
failed_count(rs) == Cardinality({ i \in DOMAIN rs : ~rs[i].success })

\* An exit status that is non-zero only when every result failed.
run_exit_all_failed(rs) ==
    IF rs # << >> /\ failed_count(rs) = Len(rs) THEN 1 ELSE 0

\* if failed_count > 0: sys.exit(1); otherwise the command returns and the
\* process exits with status 0.
run_exit(rs) == IF failed_count(rs) > 0 THEN 1 ELSE 0

\* legacy main over the list of booleans ping_project returned:
\* return 0 if PROJECTS is empty, else 0 if failed == 0 else 1
main_exit(successes) ==
    LET total == Len(successes)
        succeeded == Cardinality({ i \in DOMAIN successes : successes[i] })
        failed == total - succeeded
    IN  IF successes = << >> THEN 0
        ELSE IF failed = 0 THEN 0 ELSE 1

\* run: run_all has returned its results; the command ends.
CliExit ==
    /\ pc = "done"
    /\ mode = "all"
    /\ pc' = "exited"
    /\ exit_code' = run_exit(results)
    /\ UNCHANGED << projects, nextId, today, mode, selection, idx, results, cur,
                    startStore, selDay, assignedOn, runs, lastCall, inflight,
                    shown, issued, completedOn >>

\* The process is gone; the next invocation starts from the table alone.
CliReturn ==
    /\ pc = "exited"
    /\ pc' = "idle"
    /\ mode' = "none"
    /\ selection' = << >>
    /\ idx' = 0
    /\ results' = << >>
    /\ cur' = NoPing
    /\ startStore' = EmptyTable
    /\ selDay' = 0
    /\ assignedOn' = << >>
    /\ exit_code' = NotExited
    /\ UNCHANGED << projects, nextId, today, runs, lastCall, inflight,
                    shown, issued, completedOn >>

NextCli ==
    \/ AddProject
    \/ EnableProject
    \/ DisableProject
    \/ DeleteProject
    \/ Tick
    \/ StartRunAll
    \/ PingStep
    \/ StatusStep
    \/ CliExit
    \/ CliReturn

SpecCli == Init /\ [][NextCli]_vars

---------------------------------------------------------------------------
(* app/dashboard.py: the display of a credential *)

\* A credential is a sequence of characters: a letter, and the two
\* characters the masked form is written with.
KeyChars == { "a", ".", "*" }

\* the lengths of the credentials of the model
MaxKeyLen == 11

Keys == UNION { [ 1..n -> KeyChars ] : n \in 0..MaxKeyLen }

\* if len(api_key) <= 8
ShortKeyLen == 8

\* api_key[:4] and api_key[-4:]
ShownChars == 4

\* api_key[:4]
Leading(api_key) ==
    SubSeq(api_key, 1, IF Len(api_key) < ShownChars THEN Len(api_key) ELSE ShownChars)

\* api_key[-4:]
Trailing(api_key) ==
    SubSeq(api_key,
           (IF Len(api_key) < ShownChars THEN 0 ELSE Len(api_key) - ShownChars) + 1,
           Len(api_key))

\* _mask_key
mask_key(api_key) ==
    IF Len(api_key) <= ShortKeyLen
    THEN << "*", "*", "*" >>
    ELSE Leading(api_key) \o << ".", ".", "." >> \o Trailing(api_key)

\* A project with any credential of the model is about to be displayed.
InitMask ==
    /\ projects = EmptyTable
    /\ nextId = 1
    /\ today = 0
    /\ pc = "idle"
    /\ mode = "none"
    /\ selection = << >>
    /\ idx = 0
    /\ results = << >>
    /\ cur = NoPing
    /\ startStore = EmptyTable
    /\ selDay = 0
    /\ assignedOn = << >>
    /\ runs = 0
    /\ lastCall = NoCall
    /\ exit_code = NotExited
    /\ inflight = {}
    /\ shown \in { [ called |-> FALSE, api_key |-> k, text |-> << >> ] : k \in Keys }
    /\ issued = {}
    /\ completedOn = NeverCompleted

\* show_project: table.add_row("API Key", self._mask_key(project.api_key))
ShowKey ==
    /\ ~shown.called
    /\ shown' = [ called |-> TRUE, api_key |-> shown.api_key,
                  text |-> mask_key(shown.api_key) ]
    /\ UNCHANGED << projects, nextId, today, cur, lastCall, exit_code, inflight,
                    issued, completedOn >>
    /\ UNCHANGED batchVars

NextMask == ShowKey

SpecMask == InitMask /\ [][NextMask]_vars

---------------------------------------------------------------------------
(* The engine on its own: ping_project called on a Project object. *)

\* The Project objects ping_project is called with.
PingArgs ==
    { from_dict(r) : r \in
        [ id : {1}, name : {NameB}, url : {<< >>, URL}, api_key : {<< >>, KEY},
          keepalive_method : {RPC, TABLE, SOAP, << >>},
          table_name : {NULL, << >>, << "t" >>}, enabled : {0, 1},
          last_status : {NULL}, last_checked : {NULL}, next_run : {NULL} ] }

\* engine.ping_project(project)
PingOne ==
    /\ pc = "idle"
    /\ \E project \in PingArgs : \E env \in EnvsFor(project) :
         /\ cur' = Ping(project, Timestamp(today), env)
         /\ projects' = store_after_ping(projects, project, cur'.out.result)
    /\ UNCHANGED << nextId, today >>
    /\ UNCHANGED batchVars
    /\ UNCHANGED obsVars

NextPing ==
    \/ PingOne
    \/ Tick

SpecPing == Init /\ [][NextPing]_vars

---------------------------------------------------------------------------
(* Properties of ping_project (checked under SpecPing) *)

Attempted(name) ==
    \E i \in DOMAIN cur.out.steps : cur.out.steps[i].step = name

Succeeded(name) ==
    \E i \in DOMAIN cur.out.steps :
        cur.out.steps[i].step = name /\ cur.out.steps[i].ok

Failed(name) ==
    \E i \in DOMAIN cur.out.steps :
        cur.out.steps[i].step = name /\ ~cur.out.steps[i].ok

PrimaryFailed == Failed("rpc") \/ Failed("table")

LastStepFailed ==
    /\ cur.out.steps # << >>
    /\ ~cur.out.steps[Len(cur.out.steps)].ok

UnknownMethod == cur.project.keepalive_method \notin { RPC, TABLE }

\* C1: ping_project never raises: whatever the method and whatever the
\* outcomes of construction, primary step and fallback step, it returns a
\* KeepaliveResult for the project it was given, and when the ping failed (its
\* last step failed, or the method is unknown) that result has success = false.
C1_PingNeverRaises ==
    cur.called =>
        /\ ~cur.out.raised
        /\ cur.out.result.project_id = cur.project.id
        /\ cur.out.result.project_name = cur.project.name
        /\ (LastStepFailed \/ UnknownMethod) => ~cur.out.result.success

C1_Witness ==
    /\ cur.called
    /\ Failed("create_client")
    /\ ~cur.out.raised
    /\ ~cur.out.result.success

\* C2: fallback invariant: when the primary step (the rpc call or the table
\* read) failed, the result's method_used is "fallback".
C2_FallbackInvariant ==
    (cur.called /\ PrimaryFailed) => cur.out.result.method_used = FALLBACK

C2_Witness ==
    /\ cur.called
    /\ Failed("table")
    /\ cur.out.result.method_used = FALLBACK

\* C3: when the primary step failed and the connection was constructed, the
\* result is a success with method_used "fallback".
C3_FallbackSucceeds ==
    (cur.called /\ PrimaryFailed /\ Succeeded("create_client")) =>
        /\ cur.out.result.success
        /\ cur.out.result.method_used = FALLBACK

C3_Witness ==
    /\ cur.called
    /\ Succeeded("create_client")
    /\ Failed("rpc")
    /\ cur.out.result.success

\* C4 (as claimed): when constructing the connection fails, the result has
\* success = false and method_used = "fallback".
C4_ConstructFailureIsFallback ==
    (cur.called /\ Failed("create_client")) =>
        /\ ~cur.out.result.success
        /\ cur.out.result.method_used = FALLBACK

\* C5 (as claimed): for a method that is neither rpc nor table the result is
\* a failure with method_used = the method and message "Unknown method:
\* <method>", and neither the primary nor the fallback step is attempted.
C5_UnknownMethodResult ==
    (cur.called /\ UnknownMethod) =>
        /\ ~cur.out.result.success
        /\ cur.out.result.method_used = cur.project.keepalive_method
        /\ cur.out.result.message =
               << "Unknown method: " >> \o cur.project.keepalive_method
        /\ ~Attempted("rpc") /\ ~Attempted("table") /\ ~Attempted("fallback")

\* C6 (as claimed): a configuration error (unknown method, or an empty
\* endpoint or credential) yields a failed result with no outbound step: no
\* connection is constructed and no rpc, table or fallback call is made.
C6_ConfigErrorNoOutboundStep ==
    (cur.called /\ (UnknownMethod \/ cur.project.url = << >>
                                  \/ cur.project.api_key = << >>)) =>
        /\ ~cur.out.result.success
        /\ ~Succeeded("create_client")
        /\ ~Attempted("rpc") /\ ~Attempted("table") /\ ~Attempted("fallback")

---------------------------------------------------------------------------
(* Properties of the batch runs (checked under Spec) *)

\* The last day number the clock reaches in any specification.
LastDay == IF MaxGapDay > MaxDay THEN MaxGapDay ELSE MaxDay

\* The ISO texts of the dates a next_run can name, by day number.
DateTexts == [ d \in 0..(LastDay + MaxDays) |-> IsoFormat(d) ]

\* The day a stored next_run text denotes.
DayOf(text) == CHOOSE d \in DOMAIN DateTexts : DateTexts[d] = text

EnabledIds(view) == { i \in DOMAIN view : view[i].enabled = 1 }

DueIds(view, day) ==
    { i \in EnabledIds(view) :
        view[i].next_run = NULL \/ DayOf(view[i].next_run) <= day }

\* "B" < "ab" in case-sensitive lexical order (upper case sorts first)
AsciiRank(name) ==
    CASE name = NameB -> 1
      [] name = NameAB -> 2

Ascending(names) ==
    \A i, j \in DOMAIN names : i < j => AsciiRank(names[i]) < AsciiRank(names[j])

Expected == IF mode = "all" THEN EnabledIds(startStore) ELSE DueIds(startStore, selDay)

\* C7: a batch run returns exactly one result per selected project, in
\* ascending case-sensitive name order: run_all over the enabled projects,
\* run_scheduled over the due ones.
C7_OneResultPerSelected ==
    pc = "done" =>
        /\ Len(results) = Cardinality(Expected)
        /\ { results[i].project_id : i \in DOMAIN results } = Expected
        /\ \A i \in DOMAIN results :
               results[i].project_name = startStore[results[i].project_id].name
        /\ Ascending([ i \in DOMAIN results |-> results[i].project_name ])

C7_Witness ==
    /\ pc = "done"
    /\ mode = "all"
    /\ Len(results) = 2
    /\ results[1].project_name = NameB
    /\ results[1].project_id = 2
    /\ results[2].project_name = NameAB

\* C8: the due-today selection is exactly the enabled projects whose next_run
\* is null or not after today's date, in ascending name order: no disabled
\* project and no project with next_run after today is in it.
C8_DueSelection ==
    mode = "scheduled" =>
        /\ { selection[i].id : i \in DOMAIN selection } = DueIds(startStore, selDay)
        /\ Len(selection) = Cardinality(DueIds(startStore, selDay))
        /\ Ascending([ i \in DOMAIN selection |-> selection[i].name ])
        /\ \A i \in DOMAIN selection :
               LET row == startStore[selection[i].id]
               IN  /\ row.enabled = 1
                   /\ row.next_run # NULL => DayOf(row.next_run) <= selDay

C8_Witness ==
    /\ mode = "scheduled"
    /\ \E i \in DOMAIN selection :
           /\ startStore[selection[i].id].next_run # NULL
           /\ DayOf(startStore[selection[i].id].next_run) < selDay
    /\ \E j \in DOMAIN startStore :
           /\ startStore[j].enabled = 1
           /\ startStore[j].next_run # NULL
           /\ DayOf(startStore[j].next_run) > selDay

\* C9: in run_scheduled every processed project, whether its ping succeeded
\* or failed, gets a next_run in [D+1, D+5], D the date it was processed on,
\* for every random draw.
C9_NextRunWindow ==
    mode = "scheduled" =>
        /\ \A i \in DOMAIN assignedOn :
               LET next_run == projects[results[i].project_id].next_run
               IN  /\ next_run # NULL
                   /\ DayOf(next_run) >= assignedOn[i] + 1
                   /\ DayOf(next_run) <= assignedOn[i] + 5
        /\ pc = "done" =>
               /\ Len(assignedOn) = Len(selection)
               /\ Len(results) = Len(selection)

C9_Witness ==
    /\ mode = "scheduled"
    /\ pc = "done"
    /\ Len(assignedOn) = 2
    /\ results[1].success
    /\ ~results[2].success
    /\ DayOf(projects[results[1].project_id].next_run) = assignedOn[1] + 5
    /\ DayOf(projects[results[2].project_id].next_run) = assignedOn[2] + 1

\* C10: run_all leaves the next_run of every project as it was when the run
\* started, whatever the ping outcomes.
C10_RunAllKeepsNextRun ==
    mode = "all" =>
        /\ DOMAIN projects = DOMAIN startStore
        /\ \A id \in DOMAIN projects :
               projects[id].next_run = startStore[id].next_run

C10_Witness ==
    /\ mode = "all"
    /\ pc = "done"
    /\ \E i \in DOMAIN results :
           /\ ~results[i].success
           /\ projects[results[i].project_id].next_run # NULL
           /\ projects[results[i].project_id].last_status # << "SUCCESS" >>

---------------------------------------------------------------------------
(* Properties of a batch that may be cut short (checked under SpecCrash) *)

\* The turn of the i-th project of the batch is over.
TurnOver(i) == i < idx \/ pc = "done"

\* C11: wherever the batch stops (a crash, or its end), every project whose
\* turn is over has the last_status and last_checked of its result in the
\* table, and in a scheduled run its new next_run: the writes of a project
\* are committed before the next project is pinged, and nothing undoes them.
C11_ProcessedAreRecorded ==
    \A i \in DOMAIN results :
        TurnOver(i) =>
            LET row == projects[selection[i].id]
            IN  /\ row.last_status # NULL
                /\ (row.last_status = << "SUCCESS" >>) <=> results[i].success
                /\ row.last_checked = results[i].timestamp
                /\ mode = "scheduled" =>
                       /\ i <= Len(assignedOn)
                       /\ row.next_run # NULL
                       /\ DayOf(row.next_run) > assignedOn[i]

C11_Witness ==
    /\ pc = "crashed"
    /\ mode = "scheduled"
    /\ idx = 2
    /\ Len(results) = 2
    /\ ~results[1].success
    /\ projects[selection[1].id].last_status # NULL
    /\ projects[selection[2].id].last_status = NULL

---------------------------------------------------------------------------
(* More properties of the batch runs (checked under Spec) *)

\* C12: once a batch has processed a project, its stored last_status is
\* exactly "SUCCESS" if the result has success = true and "FAILED: " followed
\* by the result's message otherwise, and its last_checked is the result's
\* timestamp.
C12_StatusFormat ==
    \A i \in DOMAIN results :
        TurnOver(i) =>
            LET row == projects[selection[i].id]
            IN  /\ results[i].success => row.last_status = << "SUCCESS" >>
                /\ ~results[i].success =>
                       row.last_status = << "FAILED: " >> \o results[i].message
                /\ row.last_checked = results[i].timestamp

\* B (rpc, the call succeeds) and ab (table, the read fails, the fallback
\* succeeds): both rows end with "SUCCESS".
C12_Witness ==
    /\ pc = "done"
    /\ mode = "all"
    /\ Len(results) = 2
    /\ results[1].success /\ results[1].method_used = RPC
    /\ results[2].success /\ results[2].method_used = FALLBACK
    /\ selection[2].keepalive_method = TABLE
    /\ \A i \in 1..2 : projects[selection[i].id].last_status = << "SUCCESS" >>

\* The selection of a batch that starts now in mode m would be empty.
NothingSelected(m) ==
    IF m = "all"
    THEN EnabledIds(projects) = {}
    ELSE DueIds(StartView(projects), today) = {}

BatchStarts == pc = "idle" /\ pc' # "idle"

\* C13: a batch run whose selection is empty (run_all with no enabled
\* project, run_scheduled with no due project) returns an empty sequence of
\* results, makes no ping and no write, and leaves the store unchanged until
\* it has returned.
C13_EmptySelection ==
    [][ /\ (BatchStarts /\ NothingSelected(mode')) =>
              /\ pc' = "done"
              /\ selection' = << >>
              /\ results' = << >>
              /\ ~cur'.called
              /\ projects' = projects
        /\ (pc = "done" /\ selection = << >>) =>
              /\ pc' \in { "done", "idle" }
              /\ results' = << >>
              /\ projects' = projects
              /\ ~cur'.called ]_vars

\* run_scheduled has returned [] although the table holds an enabled project:
\* its next_run is still ahead, and nothing of it was touched.
C13_Witness ==
    /\ pc = "done"
    /\ mode = "scheduled"
    /\ selection = << >>
    /\ results = << >>
    /\ ~cur.called
    /\ \E i \in DOMAIN projects :
           /\ projects[i].enabled = 1
           /\ projects[i].next_run # NULL
           /\ DayOf(projects[i].next_run) > today
    /\ StartView(projects) = startStore

\* C14: a failed ping neither aborts the batch nor raises out of the run:
\* the loop never ends on an exception, every selected project is pinged in
\* its turn whatever the earlier results were, and its status is written.
C14_FailureIsolated ==
    /\ pc # "aborted"
    /\ pc \in { "ping", "status", "nextrun" } => idx \in 1..Len(selection)
    /\ pc = "done" => Len(results) = Len(selection)
    /\ \A i \in DOMAIN results :
           /\ results[i].project_id = selection[i].id
           /\ TurnOver(i) =>
                  projects[selection[i].id].last_status = StatusOf(results[i])

\* The first project failed; the second was still pinged and recorded.
C14_Witness ==
    /\ pc = "done"
    /\ Len(selection) = 2
    /\ Len(results) = 2
    /\ ~results[1].success
    /\ cur.called /\ cur.project.id = selection[2].id
    /\ projects[selection[2].id].last_status = StatusOf(results[2])
    /\ projects[selection[2].id].last_checked = results[2].timestamp

\* The ids the batch in progress found disabled when it started.
DisabledAtStart == { i \in DOMAIN startStore : startStore[i].enabled = 0 }

\* Every date a next_run or a run day of the model can be.
AnyDay == 0..(MaxDay + MaxDays)

Returned19(rows) == { rows[k].id : k \in DOMAIN rows }

\* The queries never return a disabled row, and a batch in progress has
\* neither selected nor pinged a project that was disabled at its start.
DisabledInvisible ==
    /\ \A i \in DOMAIN projects :
           projects[i].enabled = 0 =>
               /\ i \notin Returned19(get_all_projects(projects, TRUE))
               /\ \A day \in AnyDay :
                      i \notin Returned19(get_scheduled_projects(projects, day))
    /\ pc # "idle" =>
           \A i \in DisabledAtStart :
               /\ \A k \in DOMAIN selection : selection[k].id # i
               /\ \A k \in DOMAIN results : results[k].project_id # i
               /\ ~(cur.called /\ cur.project.id = i)

\* No step of a batch writes a row that was disabled at its start.
DisabledUntouched ==
    pc # "idle" =>
        \A i \in DisabledAtStart :
            /\ i \in DOMAIN projects'
            /\ projects'[i] = projects[i]

\* C19: a disabled project is invisible to both run modes: it is absent from
\* get_all_projects(enabled_only=True) and from get_scheduled_projects for
\* any date and any next_run, and a batch run started while it is disabled
\* neither pings it nor writes its last_status, last_checked or next_run.
C19_DisabledInvisible == []DisabledInvisible /\ [][DisabledUntouched]_vars

\* A scheduled batch has processed a project and returned, while a disabled
\* project that was never run (next_run null: due on any day) is as it was.
C19_Witness ==
    /\ pc = "done"
    /\ mode = "scheduled"
    /\ Len(results) >= 1
    /\ \E i \in DisabledAtStart :
           /\ startStore[i].next_run = NULL
           /\ projects[i].enabled = 0
           /\ projects[i].last_status = NULL
           /\ projects[i].last_checked = NULL
           /\ projects[i].next_run = NULL

---------------------------------------------------------------------------
(* The run command (checked under SpecCli) *)

\* C15: the batch-run command exits with a non-zero status if and only if at
\* least one result of the batch was unsuccessful; with no failed result,
\* an empty batch included, it exits with status zero.  The legacy script's
\* main gives the same status for the same outcomes.
C15_ExitStatus ==
    pc = "exited" =>
        LET anyFailed == \E i \in DOMAIN results : ~results[i].success
        IN  /\ exit_code \in { 0, 1 }
            /\ exit_code # 0 <=> anyFailed
            /\ results = << >> => exit_code = 0
            /\ main_exit([ i \in DOMAIN results |-> results[i].success ]) # 0
                   <=> anyFailed

\* One project succeeded, one failed: the command exits with status 1.
C15_Witness ==
    /\ pc = "exited"
    /\ Len(results) = 2
    /\ \E i, j \in 1..2 : results[i].success /\ ~results[j].success
    /\ exit_code = 1

\* The empty batch exits with status 0.
C15_EmptyBatchExitsZero ==
    /\ pc = "exited"
    /\ results = << >>
    /\ exit_code = 0

---------------------------------------------------------------------------
(* Properties of the store (checked under SpecStore) *)

\* C16: creating a project whose name equals the name of an existing
\* project fails with a constraint violation that reaches the caller, and
\* the failed call creates no row and changes no existing row.
C16_DuplicateNameRejected ==
    (lastCall.op = "add_project" /\ NameTaken(lastCall.before, lastCall.name)) =>
        /\ lastCall.raised = IntegrityError
        /\ lastCall.value = None
        /\ projects = lastCall.before

\* A second add_project("B", ...) has raised; the table still holds the
\* first row only.
C16_Witness ==
    /\ lastCall.op = "add_project"
    /\ lastCall.name = NameB
    /\ lastCall.raised = IntegrityError
    /\ Cardinality(DOMAIN projects) = 1
    /\ \E i \in DOMAIN projects : projects[i].name = NameB

\* What the caller of a store method can tell a call by: the exception and
\* the return value.
Observed(c) == << c.raised, c.value >>

ByIdOps == { "update_project", "enable_project", "disable_project", "delete_project" }

\* The calls of update_project / enable_project / disable_project /
\* delete_project on an id the table held, that did what they were asked.
Succeeded17(c) ==
    /\ c.op \in ByIdOps
    /\ c.id \in DOMAIN c.before
    /\ c.raised = NULL

\* C17: update_project, enable_project, disable_project and delete_project,
\* called with an id that no project has, report not-found to their caller as
\* a condition distinct from success: what the caller gets back differs from
\* what a successful call gives back (no exception, None).
C17_NotFoundReported ==
    (lastCall.op \in ByIdOps /\ lastCall.id \notin DOMAIN lastCall.before) =>
        Observed(lastCall) # << NULL, None >>

\* A successful call by id does give back (no exception, None).
C17_SuccessObservation ==
    Succeeded17(lastCall) => Observed(lastCall) = << NULL, None >>

\* C18: for an existing project id, update_status(id, s, t) followed by
\* get_project(id) yields last_status = s and last_checked = t.
C18_StatusReadBack ==
    ( /\ lastCall.op = "get_project"
      /\ lastCall.after = [ op |-> "update_status", id |-> lastCall.id ]
      /\ lastCall.got.found ) =>
        /\ lastCall.got.row.last_status = lastCall.status
        /\ lastCall.got.row.last_checked = lastCall.timestamp

\* update_status(id, "SUCCESS", t) on a row the table holds, then
\* get_project(id): the row read back carries "SUCCESS" and t.
C18_Witness ==
    /\ lastCall.op = "get_project"
    /\ lastCall.after = [ op |-> "update_status", id |-> lastCall.id ]
    /\ lastCall.got.found
    /\ lastCall.status = << "SUCCESS" >>
    /\ lastCall.timestamp = Timestamp(1)
    /\ lastCall.got.row.last_status = << "SUCCESS" >>
    /\ lastCall.got.row.last_checked = Timestamp(1)

---------------------------------------------------------------------------
(* The status of a project over its life (checked under SpecLife) *)

\* The state of a project, derived from last_status.
StateOf(last_status) ==
    IF last_status = NULL THEN "NeverRun"
    ELSE IF last_status = << "SUCCESS" >> THEN "Success"
    ELSE "Failed"

Kept == DOMAIN projects \cap DOMAIN projects'

\* A row is created with last_status null.
StartsNeverRun ==
    \A i \in DOMAIN projects' \ DOMAIN projects :
        StateOf(projects'[i].last_status) = "NeverRun"

\* The batch leaves its status step: update_status has been called.
Recorded == pc = "status" /\ pc' # "status"

\* The step of a batch that records a project's result moves the project to
\* Success or Failed by that result alone, and moves no other project.
RunDecides ==
    Recorded =>
        LET id == selection[idx].id
        IN  /\ id \in DOMAIN projects'
            /\ StateOf(projects'[id].last_status) =
                   (IF results[idx].success THEN "Success" ELSE "Failed")
            /\ \A i \in Kept \ {id} :
                   projects'[i].last_status = projects[i].last_status

\* No other step changes the last_status of a row it keeps.
OthersKeepStatus ==
    ~Recorded =>
        \A i \in Kept : projects'[i].last_status = projects[i].last_status

\* A non-null last_status is never null again while the row exists.
NeverNullAgain ==
    \A i \in Kept :
        projects[i].last_status # NULL => projects'[i].last_status # NULL

\* C20: per-project status state machine: a project starts in NeverRun
\* (last_status null); each batch run that processes it moves it to Success
\* or Failed according to that run's result alone, whatever the state before;
\* and once last_status is non-null no operation other than deletion makes
\* it null again.
C20_StatusStateMachine ==
    [][ StartsNeverRun /\ RunDecides /\ OthersKeepStatus /\ NeverNullAgain ]_vars

\* No terminal state: a batch found one project in Success and left it in
\* Failed, and found the other in Failed and left it in Success.
C20_Witness ==
    /\ pc = "done"
    /\ Len(selection) = 2
    /\ \E i, j \in 1..2 :
           /\ StateOf(selection[i].last_status) = "Success"
           /\ StateOf(projects[selection[i].id].last_status) = "Failed"
           /\ StateOf(selection[j].last_status) = "Failed"
           /\ StateOf(projects[selection[j].id].last_status) = "Success"

---------------------------------------------------------------------------
(* More properties of ping_project (checked under SpecPing) *)

\* "table:<name>" for the table the project's primary step reads.
TableMethodOf(project) == << "table:" >> \o TableNameOf(project)

\* A successful result names the step that succeeded.
SuccessNamesStep ==
    (cur.called /\ cur.out.result.success) =>
        /\ cur.out.result.method_used = RPC => Succeeded("rpc")
        /\ cur.out.result.method_used = TableMethodOf(cur.project) =>
               Succeeded("table")
        /\ cur.out.result.method_used = FALLBACK => Succeeded("fallback")

\* C21 (as claimed): every KeepaliveResult produced by ping_project has
\* method_used in {"rpc", "table:<name>", "fallback"}, and a successful result
\* names the step that actually succeeded.
C21_MethodUsedEnum ==
    cur.called =>
        /\ cur.out.result.method_used \in
               { RPC, TableMethodOf(cur.project), FALLBACK }
        /\ SuccessNamesStep

\* What holds of the code: the successful results are in the set and name
\* their step; a failed result may carry the configured method as it is.
C21_SuccessfulMethodUsed ==
    cur.called =>
        /\ SuccessNamesStep
        /\ cur.out.result.success =>
               cur.out.result.method_used \in
                   { RPC, TableMethodOf(cur.project), FALLBACK }
        /\ cur.out.result.method_used \in
               { RPC, TableMethodOf(cur.project), FALLBACK,
                 cur.project.keepalive_method }

\* The positions of the steps named name among the steps of the ping.
StepsNamed(name) == { i \in DOMAIN cur.out.steps : cur.out.steps[i].step = name }

PrimarySteps == StepsNamed("rpc") \cup StepsNamed("table")

\* C22: in one ping_project call the steps run in the fixed order primary
\* then fallback, each at most once: the fallback step is attempted only
\* after the primary step has failed, never when the primary step succeeded,
\* and nothing is retried.
C22_PrimaryThenFallbackOnce ==
    cur.called =>
        /\ Cardinality(StepsNamed("create_client")) <= 1
        /\ Cardinality(PrimarySteps) <= 1
        /\ Cardinality(StepsNamed("fallback")) <= 1
        /\ \A f \in StepsNamed("fallback") :
               \E q \in PrimarySteps : q < f /\ ~cur.out.steps[q].ok
        /\ (Succeeded("rpc") \/ Succeeded("table")) => ~Attempted("fallback")

\* The rpc call failed, then the fallback step ran, once each.
C22_Witness ==
    /\ cur.called
    /\ Len(cur.out.steps) = 3
    /\ cur.out.steps[2] = Step("rpc", FALSE)
    /\ cur.out.steps[3] = Step("fallback", TRUE)

\* The table names a Project of the model can carry.
TableNames == { NULL, << >>, << "t" >> }

\* The table a table project is to be read from, as the claim words it.
TableToRead(project) ==
    IF project.table_name \in { NULL, << >> } THEN << "users" >>
    ELSE project.table_name

\* C27: for a project with method table, the primary step reads from
\* project.table_name, or from "users" when table_name is unset (null or
\* empty), and a successful result has method_used = "table:<that name>"; for
\* a project with method rpc, table_name has no effect on the steps attempted
\* or on the result.
C27_TableNameUse ==
    cur.called =>
        /\ (cur.project.keepalive_method = TABLE /\ Succeeded("create_client")) =>
               /\ \E i \in DOMAIN cur.out.steps :
                      /\ cur.out.steps[i].step = "table"
                      /\ cur.out.steps[i].target = TableToRead(cur.project)
               /\ \A i \in DOMAIN cur.out.steps :
                      cur.out.steps[i].step = "table" =>
                          cur.out.steps[i].target = TableToRead(cur.project)
               /\ Succeeded("table") =>
                      /\ cur.out.result.success
                      /\ cur.out.result.method_used =
                             << "table:" >> \o TableToRead(cur.project)
        /\ cur.project.keepalive_method = RPC =>
               /\ ~Attempted("table")
               /\ \A tn \in TableNames : \A env \in EnvsFor(cur.project) :
                      ping_project([ cur.project EXCEPT !.table_name = tn ],
                                   cur.out.result.timestamp, env)
                          = ping_project(cur.project, cur.out.result.timestamp, env)

\* A table project with an empty table_name: "users" was read, and the
\* result says "table:users".
C27_Witness ==
    /\ cur.called
    /\ cur.project.keepalive_method = TABLE
    /\ cur.project.table_name = << >>
    /\ Len(cur.out.steps) = 2
    /\ cur.out.steps[2] = StepOn("table", << "users" >>, TRUE)
    /\ cur.out.result.success
    /\ cur.out.result.method_used = << "table:", "users" >>

---------------------------------------------------------------------------
(* Pings that take time (checked under SpecHang) *)

\* At most one ping is in flight, and it is the ping of the project the
\* loop stands at.
InFlightAtMostOne ==
    /\ Cardinality(inflight) <= 1
    /\ \A call \in inflight :
           /\ pc \in { "inflight", "hung" }
           /\ call.id = selection[idx].id

PingStarts == inflight' \ inflight # {}

\* When a ping starts, the pings and the store writes of the projects before
\* it in the batch have finished.
PreviousFinished ==
    PingStarts =>
        /\ inflight = {}
        /\ Len(results) = idx - 1
        /\ \A i \in 1..(idx - 1) :
               LET row == projects[selection[i].id]
               IN  /\ row.last_status = StatusOf(results[i])
                   /\ row.last_checked = results[i].timestamp
                   /\ mode = "scheduled" =>
                          /\ Len(assignedOn) = idx - 1
                          /\ row.next_run # NULL

\* A ping that never returns blocks the batch for good.
HangBlocks ==
    pc = "hung" =>
        /\ pc' = "hung"
        /\ ~PingStarts
        /\ inflight' = inflight
        /\ idx' = idx
        /\ results' = results
        /\ projects' = projects

\* C23: within one batch invocation at most one ping is in flight at any
\* time: the ping of a project starts only after the ping and the store
\* writes of the previous project have finished, and if a ping never returns
\* no later project of the batch is ever pinged.
C23_OnePingInFlight ==
    []InFlightAtMostOne /\ [][PreviousFinished /\ HangBlocks]_vars

\* The ping of the first of two projects hangs; a day later the second has
\* still not been pinged.
C23_Witness ==
    /\ pc = "hung"
    /\ Len(selection) = 2
    /\ idx = 1
    /\ results = << >>
    /\ today > selDay
    /\ projects[selection[2].id].last_checked = NULL

\* The second ping of a batch is in flight after the first was recorded.
C23_SecondInFlight ==
    /\ pc = "inflight"
    /\ idx = 2
    /\ Len(results) = 1
    /\ projects[selection[1].id].last_checked = results[1].timestamp

---------------------------------------------------------------------------
(* The frame of a ping and of a batch (checked under Spec) *)

\* The step of a batch in which ping_project is called and returns.
Pinged == pc = "ping" /\ pc' # "ping"

\* C24: ping_project does not write to the store: for every project and
\* every outcome, the rows of the store and all their fields are the same
\* after ping_project returns as before it was called.
C24_PingLeavesStore ==
    [][ Pinged => (cur'.called /\ projects' = projects /\ nextId' = nextId) ]_vars

\* ping_project has returned a failed result for a project that was never
\* run: its row still has no status, and the table is as the batch found it.
C24_Witness ==
    /\ pc = "status"
    /\ cur.called
    /\ ~cur.out.result.success
    /\ projects[selection[idx].id].last_status = NULL
    /\ projects[selection[idx].id].last_checked = NULL
    /\ StartView(projects) = startStore

\* The columns no batch writes.
Fixed(row) ==
    << row.id, row.name, row.url, row.api_key, row.keepalive_method,
       row.table_name, row.enabled >>

SelectedIds == { selection[k].id : k \in DOMAIN selection }

\* What a step taken while a batch is in progress, or the step that starts
\* one, leaves alone.
BatchFrame ==
    (pc # "idle" \/ BatchStarts) =>
        /\ DOMAIN projects' = DOMAIN projects
        /\ nextId' = nextId
        /\ \A i \in DOMAIN projects :
               /\ Fixed(projects'[i]) = Fixed(projects[i])
               /\ i \notin SelectedIds => projects'[i] = projects[i]
               /\ mode = "all" => projects'[i].next_run = projects[i].next_run
        /\ BatchStarts => projects' = projects

\* C29: a batch run in either mode changes only last_status, last_checked
\* (and, in scheduled mode, next_run) of the projects it processes: it never
\* adds or removes a project, never changes any project's id, name, url,
\* api_key, keepalive_method, table_name or enabled, and never changes any
\* field of a project that was not in its selection.
C29_BatchFrame == [][BatchFrame]_vars

\* A scheduled batch has processed one of two projects: that row has its
\* status, timestamp and next_run and is otherwise as it was; the other row
\* is as a whole as it was.
C29_Witness ==
    /\ pc = "done"
    /\ mode = "scheduled"
    /\ Len(results) = 1
    /\ Cardinality(DOMAIN projects) = 2
    /\ LET p == selection[1].id
       IN  /\ projects[p].last_status # NULL
           /\ projects[p].next_run # startStore[p].next_run
           /\ Fixed(projects[p]) = Fixed(startStore[p])
           /\ \A i \in DOMAIN projects \ {p} :
                  /\ StartView(projects)[i] = startStore[i]
                  /\ projects[i].last_status = NULL
                  /\ projects[i].last_checked = NULL

\* The step in which run_scheduled finishes its last project.
ScheduledCompletes == mode = "scheduled" /\ pc # "done" /\ pc' = "done"

\* The ids a run_scheduled started now, in the state the step leads to,
\* would select.
SelectedAgain ==
    LET again == get_scheduled_projects(projects', today')
    IN  { again[k].id : k \in DOMAIN again }

\* Every project the finishing batch processed has next_run after today,
\* and a run_scheduled started at once selects none of them.
NotDueAgain ==
    \A i \in DOMAIN results' :
        LET id == results'[i].project_id
        IN  /\ projects'[id].next_run # NULL
            /\ DayOf(projects'[id].next_run) > today'
            /\ id \notin SelectedAgain

\* The whole batch ran on the date it finishes on.
RanWithinOneDate ==
    /\ selDay = today'
    /\ \A i \in DOMAIN assignedOn' : assignedOn'[i] = today'

\* C30 (as claimed): after run_scheduled completes on date D, every project
\* it processed has next_run > D, so a second run_scheduled on the same date
\* D with no intervening store mutation selects none of them.
C30_NotDueAgainSameDay == [][ ScheduledCompletes => NotDueAgain ]_vars

\* C30 (amended): after a run_scheduled that ran entirely on date D (it
\* started and processed every project on D), every project it processed
\* has next_run > D, and a second run_scheduled on D selects none of them.
\* A project processed before midnight of a batch that completes after it
\* has next_run > the date it was processed on, which may be D itself.
C30_NotDueAgainWithinOneDate ==
    [][ ScheduledCompletes =>
          /\ RanWithinOneDate => NotDueAgain
          /\ \A i \in DOMAIN assignedOn' :
                 DayOf(projects'[results'[i].project_id].next_run) > assignedOn'[i]
      ]_vars

\* A second run_scheduled on the date of the first has selected nothing,
\* although an enabled project was processed on that date: its next_run is
\* ahead.
C30_Witness ==
    /\ pc = "done"
    /\ mode = "scheduled"
    /\ runs = 2
    /\ selection = << >>
    /\ \E i \in DOMAIN projects :
           /\ projects[i].enabled = 1
           /\ projects[i].last_checked = Timestamp(today)
           /\ projects[i].next_run # NULL
           /\ DayOf(projects[i].next_run) > today

\* A batch that began before midnight has completed after it, and a project
\* it processed the day before is due again today.
C30_DueAgainAfterMidnight ==
    /\ pc = "done"
    /\ mode = "scheduled"
    /\ selDay < today
    /\ \E i \in DOMAIN assignedOn :
           /\ assignedOn[i] < today
           /\ DayOf(projects[results[i].project_id].next_run) = today

---------------------------------------------------------------------------
(* Names (checked under SpecNames) *)

\* No two stored projects have the same name.
NamesUnique ==
    \A i, j \in DOMAIN projects : i # j => projects[i].name # projects[j].name

\* The call just made is update_project with a name another row holds.
RenamedToTaken ==
    /\ lastCall' # lastCall
    /\ lastCall'.op = "update_project"
    /\ lastCall'.id \in DOMAIN projects
    /\ \E j \in DOMAIN projects \ { lastCall'.id } : projects[j].name = lastCall'.name

\* C25: name uniqueness is an invariant of the store: after any sequence of
\* add_project, update_project (renames included), enable, disable, delete
\* and batch runs, no two stored projects have the same name; a rename to a
\* name another project uses fails and leaves both rows unchanged.
C25_NamesUnique ==
    /\ []NamesUnique
    /\ [][ RenamedToTaken =>
              /\ lastCall'.raised = IntegrityError
              /\ projects' = projects ]_vars

\* After a batch run, renaming one of two projects to the other's name has
\* failed; the table still holds both rows as they were.
C25_Witness ==
    /\ lastCall.op = "update_project"
    /\ lastCall.raised = IntegrityError
    /\ runs >= 1
    /\ pc = "idle"
    /\ Cardinality(DOMAIN projects) = 2
    /\ projects = lastCall.before
    /\ \E i \in DOMAIN projects : projects[i].last_status # NULL

---------------------------------------------------------------------------
(* Methods (checked under SpecMethods) *)

\* C26 (as claimed): in every reachable store state every stored project
\* has method in {rpc, table}: no sequence of add_project and update_project
\* calls leaves a project with any other method value.
C26_MethodValid ==
    \A i \in DOMAIN projects : projects[i].keepalive_method \in { RPC, TABLE }

\* What holds of the code: a row's method is whatever text the latest
\* add_project or update_project call gave for it.
C26_MethodIsAnyInput ==
    \A i \in DOMAIN projects : projects[i].keepalive_method \in MethodInputs

---------------------------------------------------------------------------
(* The displayed credential (checked under SpecMask) *)

\* text contains key as a run of consecutive characters.
Contains(text, key) ==
    \E off \in 0..(Len(text) - Len(key)) :
        SubSeq(text, off + 1, off + Len(key)) = key

\* _mask_key returns "***" for a credential of 8 characters or fewer and
\* first-4 + "..." + last-4 otherwise.
MaskShape ==
    shown.called =>
        LET k == shown.api_key
            n == Len(k)
        IN  IF n <= 8
            THEN shown.text = << "*", "*", "*" >>
            ELSE shown.text = << k[1], k[2], k[3], k[4], ".", ".", ".",
                                 k[n - 3], k[n - 2], k[n - 1], k[n] >>

\* C28 (as claimed): the displayed form of a credential reveals at most its
\* 4 leading and 4 trailing characters and never equals or contains the full
\* credential: _mask_key returns "***" for a credential of 8 characters or
\* fewer and first-4 + "..." + last-4 otherwise.
C28_MaskHidesKey ==
    (shown.called /\ shown.api_key # << >>) =>
        /\ MaskShape
        /\ shown.text # shown.api_key
        /\ ~Contains(shown.text, shown.api_key)

\* What holds of the code: the shape of the masked form.
C28_MaskShape == MaskShape

\* A credential of 11 characters whose middle is "..." is displayed in full.
C28_ElevenDisplayedInFull ==
    /\ shown.called
    /\ Len(shown.api_key) = 11
    /\ shown.text = shown.api_key

---------------------------------------------------------------------------
(* The gap between two pings of a project (checked under SpecDaily) *)

\* The timestamp texts of the dates the clock reaches, by day number.
StampTexts == [ d \in 0..LastDay |-> Timestamp(d) ]

\* The day a stored timestamp text denotes.
DayOfStamp(text) == CHOOSE d \in DOMAIN StampTexts : StampTexts[d] = text

NeverPinged == -1

\* The date of the latest ping of project id: the one the running batch has
\* just made and not recorded yet, or the one last_checked records.
LastPinged(id) ==
    IF pc = "status" /\ selection[idx].id = id
    THEN DayOfStamp(results[idx].timestamp)
    ELSE IF projects[id].last_checked = NULL
         THEN NeverPinged
         ELSE DayOfStamp(projects[id].last_checked)

\* The projects that have been enabled since they were created (SpecDaily
\* has no call that disables, enables or deletes).
StaysEnabled == { id \in DOMAIN projects : projects[id].enabled = 1 }

\* No date later than g days after the latest ping of a project is reached
\* with that project not pinged again.
GapAtMost(g) ==
    \A id \in StaysEnabled :
        LET pinged == LastPinged(id)
        IN  pinged # NeverPinged => today <= pinged + g

\* The date next_run names is never passed: the project is pinged on it at
\* the latest.
NextRunNotMissed ==
    \A id \in StaysEnabled :
        projects[id].next_run # NULL => today <= DayOf(projects[id].next_run)

\* run_scheduled begins.
ScheduledBegins == pc = "idle" /\ mode' = "scheduled"

\* The very next run_scheduled selects every enabled project whose next_run
\* is null, and pings every project it selected before it completes.
NullPingedByNextRun ==
    /\ ScheduledBegins =>
          \A id \in StaysEnabled :
              projects[id].next_run = NULL =>
                  \E i \in DOMAIN selection' : selection'[i].id = id
    /\ (mode = "scheduled" /\ pc # "done" /\ pc' = "done") =>
          \A i \in DOMAIN selection' :
              /\ i \in DOMAIN results'
              /\ results'[i].project_id = selection'[i].id

\* next_run is drawn 1 to 5 days after the date it is assigned on, which is
\* the date of the ping or, when midnight passed in between, the next one.
NextRunAfterPing ==
    (pc = "nextrun" /\ pc' # "nextrun") =>
        LET id == selection[idx].id
            pinged == DayOfStamp(results[idx].timestamp)
            next == DayOf(projects'[id].next_run)
        IN  /\ today \in { pinged, pinged + 1 }
            /\ next \in (today + MinDays)..(today + MaxDays)
            /\ today = pinged => next <= pinged + MaxDays

\* C31 as stated: under a daily run_scheduled a project that stays enabled
\* is pinged again no later than 5 days after each day it was pinged on, and
\* a project with next_run null is pinged by the very next scheduled run.
C31_GapAtMostFiveDays == []GapAtMost(MaxDays) /\ [][NullPingedByNextRun]_vars

\* C31, with the bound the code keeps: under a daily run_scheduled a project
\* that stays enabled is pinged again no later than the date its next_run
\* names, which is 1 to 5 days after the date next_run was assigned on: 5
\* days after the ping at most when both fall on one date, 6 when midnight
\* passes between the ping and the assignment; and a project with next_run
\* null is pinged by the very next scheduled run.
C31_GapAtMostSixDays ==
    /\ [](GapAtMost(MaxDays + 1) /\ NextRunNotMissed)
    /\ [][NullPingedByNextRun /\ NextRunAfterPing]_vars

\* A project pinged before is pinged again, on the date its next_run named,
\* 5 days after the date of its previous ping.
C31_Witness ==
    /\ pc = "nextrun"
    /\ mode = "scheduled"
    /\ selection[idx].last_checked # NULL
    /\ DayOfStamp(selection[idx].last_checked) + MaxDays = today
    /\ DayOf(projects[selection[idx].id].next_run) = today
    /\ LastPinged(selection[idx].id) = today

\* A project is pinged 6 days after its previous ping and was not pinged in
\* between.
C31_SixDaysApart ==
    /\ pc = "nextrun"
    /\ mode = "scheduled"
    /\ selection[idx].last_checked # NULL
    /\ DayOfStamp(selection[idx].last_checked) + MaxDays + 1 = today
    /\ LastPinged(selection[idx].id) = today

\* A project created with next_run null has been pinged by the first
\* run_scheduled that began after it was added.
C31_NullPinged ==
    /\ pc = "done"
    /\ mode = "scheduled"
    /\ \E i \in DOMAIN selection :
         /\ startStore[selection[i].id].next_run = NULL
         /\ results[i].project_id = selection[i].id
         /\ projects[selection[i].id].last_checked = results[i].timestamp

---------------------------------------------------------------------------
(* Project ids (checked under SpecStore) *)

\* Every row carries the id it is stored under, and no two rows share one.
IdsUnique ==
    \A i \in DOMAIN projects :
        /\ projects[i].id = i
        /\ \A j \in DOMAIN projects : projects[j].id = projects[i].id => j = i

\* The step is an add_project that returned an id.
AddReturns == lastCall'.op = "add_project" /\ ~lastCall'.value.isNone

\* The id add_project returns was never returned before, is the id of no
\* row of the table, and is the id of the one row the call created.
FreshId ==
    AddReturns =>
        LET id == lastCall'.value.n
        IN  /\ id \notin issued
            /\ id \notin DOMAIN projects
            /\ DOMAIN projects' = DOMAIN projects \cup { id }
            /\ projects'[id].name = lastCall'.name

\* Ids appear by add_project only and vanish by delete_project only: every
\* other call leaves each row under the id it had.
IdsKept ==
    /\ \A i \in DOMAIN projects \cap DOMAIN projects' :
           projects'[i].id = projects[i].id
    /\ ~AddReturns => DOMAIN projects' \subseteq DOMAIN projects
    /\ lastCall'.op # "delete_project" => DOMAIN projects \subseteq DOMAIN projects'
    /\ lastCall'.op = "delete_project" =>
           DOMAIN projects' = DOMAIN projects \ { lastCall'.id }

\* C32: project ids are unique, immutable and never reused: an id returned
\* by add_project differs from every id an earlier add_project returned,
\* those of deleted projects included, and add_project, update_project and
\* delete_project (and every other call) leave the id of each existing row
\* as it is.
C32_IdsNeverReused == []IdsUnique /\ [][ FreshId /\ IdsKept ]_vars

\* add_project returned 2 on an empty table: project 1 was created and
\* deleted before.
C32_Witness ==
    /\ lastCall.op = "add_project"
    /\ ~lastCall.value.isNone
    /\ lastCall.value.n = 2
    /\ DOMAIN lastCall.before = {}
    /\ 1 \in issued
    /\ DOMAIN projects = { 2 }

---------------------------------------------------------------------------
(* A batch and the commands of another invocation (checked under
   SpecMeanwhile) *)

\* The project the batch is processing is in the table and enabled.
CurrentIsActive ==
    /\ selection[idx].id \in DOMAIN projects
    /\ projects[selection[idx].id].enabled = 1

\* ping_project is called for the current project.
PingIssued == pc = "ping" /\ pc' # "ping"

\* update_status is called for the current project.
StatusCalled == pc = "status" /\ pc' # "status"

\* update_next_run is called for the current project.
NextRunCalled == pc = "nextrun" /\ pc' # "nextrun"

\* The batch pings only a project that is enabled and present when it is
\* pinged.
PingsOnlyActive == PingIssued => CurrentIsActive

\* The batch writes no status for a project that is disabled or deleted.
WritesOnlyActive == (StatusCalled /\ ~CurrentIsActive) => projects' = projects

\* A write for an id the table does not hold changes nothing: the row is
\* not created again.
DeletedStaysDeleted ==
    ((StatusCalled \/ NextRunCalled) /\ selection[idx].id \notin DOMAIN projects)
        => projects' = projects

\* C33: with disable_project and delete_project of another invocation
\* between the steps of a batch, the batch pings only projects that are
\* enabled and present when they are pinged, writes no status for a project
\* that is disabled or deleted, and a status write for a deleted id does not
\* create the row again.
C33_OnlyActivePinged ==
    [][ PingsOnlyActive /\ WritesOnlyActive /\ DeletedStaysDeleted ]_vars

\* The part of C33 that holds: update_status and update_next_run for a
\* deleted id leave the table as it is.
C33_DeletedNotRecreated == [][ DeletedStaysDeleted ]_vars

\* The batch has pinged a project that was deleted after the selection and
\* has called update_status for it: the table still has no such row.
C33_StatusForDeleted ==
    /\ pc \in { "nextrun", "done" }
    /\ idx \in DOMAIN results
    /\ selection[idx].id \notin DOMAIN projects
    /\ selection[idx].id \in DOMAIN startStore

\* The batch has pinged a project that was disabled after the selection and
\* has recorded the result in its row.
C33_StatusForDisabled ==
    /\ pc \in { "nextrun", "done" }
    /\ idx \in DOMAIN results
    /\ selection[idx].id \in DOMAIN projects
    /\ projects[selection[idx].id].enabled = 0
    /\ startStore[selection[idx].id].enabled = 1
    /\ projects[selection[idx].id].last_checked = results[idx].timestamp

====
